---- MODULE Spec2Model ----
(***************************************************************************)
(* The network NBT encoder of steel-utils/src/text/mod.rs.                 *)
(*                                                                         *)
(* encode_text_component and the write_nbt_* functions under it are        *)
(* modelled as a stack machine: one frame per active Rust call, one step   *)
(* per write_all (or call, or return) statement.  A frame's pc is the      *)
(* source line of the statement it executes next.                          *)
(***************************************************************************)
EXTENDS Integers, Sequences, FiniteSets, TLC

VARIABLES component, pc, stack, buffer, events, result, saved

vars == <<component, pc, stack, buffer, events, result, saved>>

----------------------------------------------------------------------------
(* Bounds of the model.                                                    *)

\* longest list (and array, string) the generated inputs hold
MaxListLen == 2
\* entries of the widest generated compound
MaxEntries == 2
\* the configured maximum nesting depth of the depth guard (spec default 512;
\* the code has no such parameter, so the model instantiates it small)
MaxDepth == 4

\* u16::MAX, the largest value of the string length field
U16Max == 65535

----------------------------------------------------------------------------
(* Rust integer conversions.                                               *)

\* v.to_be_bytes() of an n-byte two's-complement integer
RECURSIVE ToBeBytes(_, _)
ToBeBytes(v, n) ==
    IF n = 0 THEN <<>> ELSE Append(ToBeBytes(v \div 256, n - 1), v % 256)

\* `len as u16`: keeps the low 16 bits
AsU16(n) == n % (U16Max + 1)

\* `len as i32`: wraps above i32::MAX
AsI32(n) == IF n <= 2147483647 THEN n ELSE (n - 2147483647) - 2147483647 - 2

\* `*v as u8` of an i8
AsU8(v) == v % 256

----------------------------------------------------------------------------
(* The NBT values: NbtTag, NbtList, NbtCompound of simdnbt::owned.         *)
(* A tag is <<kind, v>>; a list is <<kind, v>> with v the sequence of its  *)
(* elements; a compound is the sequence of its <<key, value>> entries in   *)
(* iteration order.  Strings and keys are their modified-UTF-8 bytes;      *)
(* floats are their IEEE-754 bit patterns.  A string (a Mutf8String: a     *)
(* key, a String payload, a root's name) is kept as its runs, a sequence   *)
(* of <<byte, count>>, so that a long one is a small value.                *)

\* the sequences of ss, one after the other
RECURSIVE Flat(_)
Flat(ss) == IF ss = <<>> THEN <<>> ELSE ss[1] \o Flat(Tail(ss))

\* the string of the given bytes
Str(bytes) == [i \in 1..Len(bytes) |-> <<bytes[i], 1>>]

\* Mutf8String::as_bytes
as_bytes(s) == Flat([i \in 1..Len(s) |-> [k \in 1..s[i][2] |-> s[i][1]]])

Tag(k, x) == <<k, x>>
List(k, xs) == <<k, xs>>
Entry(k, t) == <<k, t>>

\* the variant of a tag or a list, and what it holds
Kind(x) == x[1]
Val(x) == x[2]

\* the two halves of a compound's entry
Key(e) == e[1]
Value(e) == e[2]

ScalarKinds == {"Byte", "Short", "Int", "Long", "Float", "Double"}
BlobKinds == {"ByteArray", "String", "IntArray", "LongArray"}

get_nbt_tag_id(tag) ==
    CASE Kind(tag) = "Byte" -> 1
      [] Kind(tag) = "Short" -> 2
      [] Kind(tag) = "Int" -> 3
      [] Kind(tag) = "Long" -> 4
      [] Kind(tag) = "Float" -> 5
      [] Kind(tag) = "Double" -> 6
      [] Kind(tag) = "ByteArray" -> 7
      [] Kind(tag) = "String" -> 8
      [] Kind(tag) = "List" -> 9
      [] Kind(tag) = "Compound" -> 10
      [] Kind(tag) = "IntArray" -> 11
      [] Kind(tag) = "LongArray" -> 12

----------------------------------------------------------------------------
(* The machine: a configuration is [stack, buffer, events].  stack holds   *)
(* one frame per active call, the callee on top; buffer is the Vec<u8>     *)
(* behind `writer`; events is a history of the compounds entered and the   *)
(* terminators written, each with the stack depth of its frame.            *)
(* A frame is [fn, it, i, j, pc, at]: the function, its argument, its loop *)
(* indices, the line it executes next, and the buffer length at its call.  *)

EntryPc(fn) ==
    CASE fn = "write_nbt_compound" -> "L60"
      [] fn = "write_nbt_tag_payload" -> "L93"
      [] fn = "write_nbt_list" -> "L128"
      [] fn = "write_nbt_list_long" -> "L168"
      [] fn = "write_nbt_list_float" -> "L177"
      [] fn = "write_nbt_list_double" -> "L186"
      [] fn = "write_nbt_list_byte_array" -> "L195"
      [] fn = "write_nbt_list_string" -> "L205"
      [] fn = "write_nbt_list_list" -> "L216"
      [] fn = "write_nbt_list_compound" -> "L225"
      [] fn = "write_nbt_list_int_array" -> "L234"
      [] fn = "write_nbt_list_long_array" -> "L246"

Frame(fn, arg, at) ==
    [at |-> at, fn |-> fn, i |-> 0, it |-> arg, j |-> 0, pc |-> EntryPc(fn)]

Top(c) == c.stack[Len(c.stack)]

\* the frame on top moves to line p
Goto(c, p) == [c EXCEPT !.stack[Len(c.stack)].pc = p]

\* the for loop on top takes its next item
Advance(c) == [c EXCEPT !.stack[Len(c.stack)].i = @ + 1]

\* the inner for loop on top takes its next item
AdvanceInner(c) == [c EXCEPT !.stack[Len(c.stack)].j = @ + 1]

\* the inner for loop on top starts over for the next array
ResetInner(c) == [c EXCEPT !.stack[Len(c.stack)].j = 0]

\* <Vec<u8> as Write>::write_all: appends, never fails
write_all(c, bytes) == [c EXCEPT !.buffer = @ \o bytes]

\* a call: the callee's frame goes on top
Call(c, fn, arg) ==
    [c EXCEPT !.stack = Append(@, Frame(fn, arg, Len(c.buffer))),
              !.events = IF fn = "write_nbt_compound"
                         THEN Append(@, <<"open", Len(c.stack) + 1>>)
                         ELSE @]

\* Ok(()): the frame on top is dropped
Return(c) == [c EXCEPT !.stack = SubSeq(@, 1, Len(@) - 1)]

\* the list helpers' common head: the element-kind byte, then `v.len() as i32`
ListHead(c, id, idPc, lenPc, loopPc) ==
    LET f == Top(c) IN
    IF f.pc = idPc THEN Goto(write_all(c, <<id>>), lenPc)
    ELSE Goto(write_all(c, ToBeBytes(AsI32(Len(f.it)), 4)), loopPc)

----------------------------------------------------------------------------
(* One step of each function, on the configuration whose top frame is in   *)
(* that function.                                                          *)

\* the compound writes its own tag id ahead of its entries
write_nbt_compound_own_id(c) ==
    LET f == Top(c)
        e == f.it[f.i]
        own == IF f.i = 0 THEN <<10>> ELSE <<>>
    IN CASE f.pc = "L60" ->
              IF f.i < Len(f.it)
              THEN Goto(write_all(Advance(c),
                                  own \o <<get_nbt_tag_id(Value(f.it[f.i + 1]))>>), "L65")
              ELSE Goto(c, "L71")
         [] f.pc = "L65" ->
              Goto(write_all(c, ToBeBytes(AsU16(Len(as_bytes(Key(e)))), 2)), "L66")
         [] f.pc = "L66" -> Goto(write_all(c, as_bytes(Key(e))), "L68")
         [] f.pc = "L68" -> Call(Goto(c, "L60"), "write_nbt_tag_payload", Value(e))
         [] f.pc = "L71" ->
              [Goto(write_all(c, own \o <<0>>), "L72")
                 EXCEPT !.events = Append(@, <<"end", Len(c.stack)>>)]
         [] f.pc = "L72" -> Return(c)

\* the terminator is written only after an entry
write_nbt_compound_no_end_when_empty(c) ==
    LET f == Top(c)
        e == f.it[f.i]
    IN CASE f.pc = "L60" ->
              IF f.i < Len(f.it)
              THEN Goto(write_all(Advance(c),
                                  <<get_nbt_tag_id(Value(f.it[f.i + 1]))>>), "L65")
              ELSE Goto(c, IF f.i = 0 THEN "L72" ELSE "L71")
         [] f.pc = "L65" ->
              Goto(write_all(c, ToBeBytes(AsU16(Len(as_bytes(Key(e)))), 2)), "L66")
         [] f.pc = "L66" -> Goto(write_all(c, as_bytes(Key(e))), "L68")
         [] f.pc = "L68" -> Call(Goto(c, "L60"), "write_nbt_tag_payload", Value(e))
         [] f.pc = "L71" ->
              [Goto(write_all(c, <<0>>), "L72")
                 EXCEPT !.events = Append(@, <<"end", Len(c.stack)>>)]
         [] f.pc = "L72" -> Return(c)

write_nbt_compound(c) ==
    LET f == Top(c)
        e == f.it[f.i]
    IN CASE f.pc = "L60" ->
              \* for (key, value) in compound.iter(), then the tag type
              IF f.i < Len(f.it)
              THEN Goto(write_all(Advance(c),
                                  <<get_nbt_tag_id(Value(f.it[f.i + 1]))>>), "L65")
              ELSE Goto(c, "L71")
         [] f.pc = "L65" ->
              Goto(write_all(c, ToBeBytes(AsU16(Len(as_bytes(Key(e)))), 2)), "L66")
         [] f.pc = "L66" -> Goto(write_all(c, as_bytes(Key(e))), "L68")
         [] f.pc = "L68" -> Call(Goto(c, "L60"), "write_nbt_tag_payload", Value(e))
         [] f.pc = "L71" ->
              \* TAG_End
              [Goto(write_all(c, <<0>>), "L72")
                 EXCEPT !.events = Append(@, <<"end", Len(c.stack)>>)]
         [] f.pc = "L72" -> Return(c)

write_nbt_tag_payload(c) ==
    LET f == Top(c)
        tag == f.it
    IN CASE f.pc = "L93" ->
              (CASE Kind(tag) = "Byte" -> Goto(write_all(c, <<AsU8(Val(tag))>>), "L124")
                [] Kind(tag) = "Short" -> Goto(write_all(c, ToBeBytes(Val(tag), 2)), "L124")
                [] Kind(tag) = "Int" -> Goto(write_all(c, ToBeBytes(Val(tag), 4)), "L124")
                [] Kind(tag) = "Long" -> Goto(write_all(c, ToBeBytes(Val(tag), 8)), "L124")
                [] Kind(tag) = "Float" -> Goto(write_all(c, ToBeBytes(Val(tag), 4)), "L124")
                [] Kind(tag) = "Double" -> Goto(write_all(c, ToBeBytes(Val(tag), 8)), "L124")
                [] Kind(tag) = "ByteArray" ->
                     Goto(write_all(c, ToBeBytes(AsI32(Len(Val(tag))), 4)), "L102")
                [] Kind(tag) = "String" ->
                     Goto(write_all(c, ToBeBytes(AsU16(Len(as_bytes(Val(tag)))), 2)), "L107")
                [] Kind(tag) = "List" -> Call(Goto(c, "L124"), "write_nbt_list", Val(tag))
                [] Kind(tag) = "Compound" ->
                     Call(Goto(c, "L124"), "write_nbt_compound", Val(tag))
                [] Kind(tag) = "IntArray" ->
                     Goto(write_all(c, ToBeBytes(AsI32(Len(Val(tag))), 4)), "L113")
                [] Kind(tag) = "LongArray" ->
                     Goto(write_all(c, ToBeBytes(AsI32(Len(Val(tag))), 4)), "L119"))
         [] f.pc = "L102" -> Goto(write_all(c, Val(tag)), "L124")
         [] f.pc = "L107" -> Goto(write_all(c, as_bytes(Val(tag))), "L124")
         [] f.pc = "L113" ->
              IF f.i < Len(Val(tag))
              THEN write_all(Advance(c), ToBeBytes(Val(tag)[f.i + 1], 4))
              ELSE Goto(c, "L124")
         [] f.pc = "L119" ->
              IF f.i < Len(Val(tag))
              THEN write_all(Advance(c), ToBeBytes(Val(tag)[f.i + 1], 8))
              ELSE Goto(c, "L124")
         [] f.pc = "L124" -> Return(c)

write_nbt_list(c) ==
    LET f == Top(c)
        list == f.it
        v == Val(list)
    IN CASE f.pc = "L128" ->
              (CASE Kind(list) = "Empty" -> Goto(write_all(c, <<0>>), "L131")
                [] Kind(list) = "Byte" -> Goto(write_all(c, <<1>>), "L135")
                [] Kind(list) = "Short" -> Goto(write_all(c, <<2>>), "L142")
                [] Kind(list) = "Int" -> Goto(write_all(c, <<3>>), "L149")
                [] Kind(list) = "Long" ->
                     Call(Goto(c, "L164"), "write_nbt_list_long", v)
                [] Kind(list) = "Float" ->
                     Call(Goto(c, "L164"), "write_nbt_list_float", v)
                [] Kind(list) = "Double" ->
                     Call(Goto(c, "L164"), "write_nbt_list_double", v)
                [] Kind(list) = "ByteArray" ->
                     Call(Goto(c, "L164"), "write_nbt_list_byte_array", v)
                [] Kind(list) = "String" ->
                     Call(Goto(c, "L164"), "write_nbt_list_string", v)
                [] Kind(list) = "List" ->
                     Call(Goto(c, "L164"), "write_nbt_list_list", v)
                [] Kind(list) = "Compound" ->
                     Call(Goto(c, "L164"), "write_nbt_list_compound", v)
                [] Kind(list) = "IntArray" ->
                     Call(Goto(c, "L164"), "write_nbt_list_int_array", v)
                [] Kind(list) = "LongArray" ->
                     Call(Goto(c, "L164"), "write_nbt_list_long_array", v))
         [] f.pc = "L131" -> Goto(write_all(c, <<0, 0, 0, 0>>), "L164")
         [] f.pc = "L135" -> Goto(write_all(c, ToBeBytes(AsI32(Len(v)), 4)), "L136")
         [] f.pc = "L136" ->
              IF f.i < Len(v)
              THEN write_all(Advance(c), <<AsU8(v[f.i + 1])>>)
              ELSE Goto(c, "L164")
         [] f.pc = "L142" -> Goto(write_all(c, ToBeBytes(AsI32(Len(v)), 4)), "L143")
         [] f.pc = "L143" ->
              IF f.i < Len(v)
              THEN write_all(Advance(c), ToBeBytes(v[f.i + 1], 2))
              ELSE Goto(c, "L164")
         [] f.pc = "L149" -> Goto(write_all(c, ToBeBytes(AsI32(Len(v)), 4)), "L150")
         [] f.pc = "L150" ->
              IF f.i < Len(v)
              THEN write_all(Advance(c), ToBeBytes(v[f.i + 1], 4))
              ELSE Goto(c, "L164")
         [] f.pc = "L164" -> Return(c)

\* the count is written as a placeholder and patched after the elements
write_nbt_list_long_patched(c) ==
    LET f == Top(c) IN
    CASE f.pc = "L168" -> Goto(write_all(c, <<4>>), "L169")
      [] f.pc = "L169" -> Goto(write_all(c, <<0, 0, 0, 0>>), "L170")
      [] f.pc = "L170" ->
           IF f.i < Len(f.it)
           THEN write_all(Advance(c), ToBeBytes(f.it[f.i + 1], 8))
           ELSE [Goto(c, "L173")
                   EXCEPT !.buffer = SubSeq(@, 1, f.at + 1)
                                       \o ToBeBytes(AsI32(Len(f.it)), 4)
                                       \o SubSeq(@, f.at + 6, Len(@))]
      [] f.pc = "L173" -> Return(c)

write_nbt_list_long(c) ==
    LET f == Top(c) IN
    CASE f.pc \in {"L168", "L169"} -> ListHead(c, 4, "L168", "L169", "L170")
      [] f.pc = "L170" ->
           IF f.i < Len(f.it)
           THEN write_all(Advance(c), ToBeBytes(f.it[f.i + 1], 8))
           ELSE Goto(c, "L173")
      [] f.pc = "L173" -> Return(c)

write_nbt_list_float(c) ==
    LET f == Top(c) IN
    CASE f.pc \in {"L177", "L178"} -> ListHead(c, 5, "L177", "L178", "L179")
      [] f.pc = "L179" ->
           IF f.i < Len(f.it)
           THEN write_all(Advance(c), ToBeBytes(f.it[f.i + 1], 4))
           ELSE Goto(c, "L182")
      [] f.pc = "L182" -> Return(c)

write_nbt_list_double(c) ==
    LET f == Top(c) IN
    CASE f.pc \in {"L186", "L187"} -> ListHead(c, 6, "L186", "L187", "L188")
      [] f.pc = "L188" ->
           IF f.i < Len(f.it)
           THEN write_all(Advance(c), ToBeBytes(f.it[f.i + 1], 8))
           ELSE Goto(c, "L191")
      [] f.pc = "L191" -> Return(c)

write_nbt_list_byte_array(c) ==
    LET f == Top(c) IN
    CASE f.pc \in {"L195", "L196"} -> ListHead(c, 7, "L195", "L196", "L197")
      [] f.pc = "L197" ->
           IF f.i < Len(f.it)
           THEN Goto(write_all(Advance(c),
                               ToBeBytes(AsI32(Len(f.it[f.i + 1])), 4)), "L199")
           ELSE Goto(c, "L201")
      [] f.pc = "L199" -> Goto(write_all(c, f.it[f.i]), "L197")
      [] f.pc = "L201" -> Return(c)

write_nbt_list_string(c) ==
    LET f == Top(c) IN
    CASE f.pc \in {"L205", "L206"} -> ListHead(c, 8, "L205", "L206", "L207")
      [] f.pc = "L207" ->
           IF f.i < Len(f.it)
           THEN Goto(write_all(Advance(c),
                               ToBeBytes(AsU16(Len(as_bytes(f.it[f.i + 1]))), 2)), "L210")
           ELSE Goto(c, "L212")
      [] f.pc = "L210" -> Goto(write_all(c, as_bytes(f.it[f.i])), "L207")
      [] f.pc = "L212" -> Return(c)

\* every nested list is given a tag id of its own
write_nbt_list_list_tagged(c) ==
    LET f == Top(c) IN
    CASE f.pc \in {"L216", "L217"} -> ListHead(c, 9, "L216", "L217", "L218")
      [] f.pc = "L218" ->
           IF f.i < Len(f.it)
           THEN Call(write_all(Advance(c), <<9>>), "write_nbt_list", f.it[f.i + 1])
           ELSE Goto(c, "L221")
      [] f.pc = "L221" -> Return(c)

write_nbt_list_list(c) ==
    LET f == Top(c) IN
    CASE f.pc \in {"L216", "L217"} -> ListHead(c, 9, "L216", "L217", "L218")
      [] f.pc = "L218" ->
           IF f.i < Len(f.it)
           THEN Call(Advance(c), "write_nbt_list", f.it[f.i + 1])
           ELSE Goto(c, "L221")
      [] f.pc = "L221" -> Return(c)

write_nbt_list_compound(c) ==
    LET f == Top(c) IN
    CASE f.pc \in {"L225", "L226"} -> ListHead(c, 10, "L225", "L226", "L227")
      [] f.pc = "L227" ->
           IF f.i < Len(f.it)
           THEN Call(Advance(c), "write_nbt_compound", f.it[f.i + 1])
           ELSE Goto(c, "L230")
      [] f.pc = "L230" -> Return(c)

write_nbt_list_int_array(c) ==
    LET f == Top(c) IN
    CASE f.pc \in {"L234", "L235"} -> ListHead(c, 11, "L234", "L235", "L236")
      [] f.pc = "L236" ->
           IF f.i < Len(f.it)
           THEN Goto(write_all(ResetInner(Advance(c)),
                               ToBeBytes(AsI32(Len(f.it[f.i + 1])), 4)), "L238")
           ELSE Goto(c, "L242")
      [] f.pc = "L238" ->
           IF f.j < Len(f.it[f.i])
           THEN write_all(AdvanceInner(c), ToBeBytes(f.it[f.i][f.j + 1], 4))
           ELSE Goto(c, "L236")
      [] f.pc = "L242" -> Return(c)

write_nbt_list_long_array(c) ==
    LET f == Top(c) IN
    CASE f.pc \in {"L246", "L247"} -> ListHead(c, 12, "L246", "L247", "L248")
      [] f.pc = "L248" ->
           IF f.i < Len(f.it)
           THEN Goto(write_all(ResetInner(Advance(c)),
                               ToBeBytes(AsI32(Len(f.it[f.i + 1])), 4)), "L250")
           ELSE Goto(c, "L254")
      [] f.pc = "L250" ->
           IF f.j < Len(f.it[f.i])
           THEN write_all(AdvanceInner(c), ToBeBytes(f.it[f.i][f.j + 1], 8))
           ELSE Goto(c, "L248")
      [] f.pc = "L254" -> Return(c)

\* the next step of whichever function is on top
Step(c) ==
    LET fn == Top(c).fn IN
    CASE fn = "write_nbt_compound" -> write_nbt_compound(c)
      [] fn = "write_nbt_tag_payload" -> write_nbt_tag_payload(c)
      [] fn = "write_nbt_list" -> write_nbt_list(c)
      [] fn = "write_nbt_list_long" -> write_nbt_list_long(c)
      [] fn = "write_nbt_list_float" -> write_nbt_list_float(c)
      [] fn = "write_nbt_list_double" -> write_nbt_list_double(c)
      [] fn = "write_nbt_list_byte_array" -> write_nbt_list_byte_array(c)
      [] fn = "write_nbt_list_string" -> write_nbt_list_string(c)
      [] fn = "write_nbt_list_list" -> write_nbt_list_list(c)
      [] fn = "write_nbt_list_compound" -> write_nbt_list_compound(c)
      [] fn = "write_nbt_list_int_array" -> write_nbt_list_int_array(c)
      [] fn = "write_nbt_list_long_array" -> write_nbt_list_long_array(c)

\* a call run to its return: the configuration once the stack is empty
RECURSIVE Run(_)
Run(c) == IF c.stack = <<>> THEN c ELSE Run(Step(c))

\* the bytes one call of fn on arg appends to an empty writer
BytesOf(fn, arg) ==
    Run(Call([stack |-> <<>>, buffer |-> <<>>, events |-> <<>>], fn, arg)).buffer

----------------------------------------------------------------------------
(* The inputs: what component.build(&NoResolutor, NbtBuilder) can hand to  *)
(* encode_text_component.  Nbt::None, or Nbt::Some of a named root         *)
(* compound.                                                               *)

TextKey == Str(<<116, 101, 120, 116>>)

\* the key of a generated compound's j-th entry: "text", "", "t", "te", ...
KeyOf(j) == IF j = 1 THEN TextKey ELSE SubSeq(TextKey, 1, (j - 2) % 5)

\* the i-th element the generated lists of kind k hold
Elem(k, i) ==
    CASE k = "Byte" -> i - 2
      [] k = "Short" -> 257 * i
      [] k = "Int" -> 0 - i
      [] k = "Long" -> 16909060 * i
      [] k = "Float" -> 1065353216 + i
      [] k = "Double" -> 0 - (4096 * i)
      [] k = "ByteArray" -> [m \in 1..(i - 1) |-> 200 + m]
      [] k = "String" -> Str([m \in 1..(i - 1) |-> 96 + m])
      [] k = "IntArray" -> [m \in 1..(i - 1) |-> 0 - m]
      [] k = "LongArray" -> [m \in 1..(i - 1) |-> 16909060 * m]

ListOf(k, n) == List(k, [i \in 1..n |-> Elem(k, i)])

EmptyList == List("Empty", <<>>)

ScalarTags == {Tag(k, Elem(k, i)) : k \in ScalarKinds, i \in 1..2}

BlobTags == {Tag(k, Elem(k, i)) : k \in BlobKinds, i \in 1..(MaxListLen + 1)}

FlatLists ==
    {EmptyList} \cup {ListOf(k, n) : k \in ScalarKinds \cup BlobKinds, n \in 0..MaxListLen}

Leaves == ScalarTags \cup BlobTags \cup {Tag("List", l) : l \in FlatLists}

Few == {Tag("Int", 0 - 1), Tag("String", Str(<<104, 105>>)), Tag("List", ListOf("Short", 2))}

\* every sequence of 0..n members of S
SeqsUpTo(S, n) == UNION {[1..m -> S] : m \in 0..n}

CompoundOf(values) == [j \in 1..Len(values) |-> Entry(KeyOf(j), values[j])]

FlatCompounds ==
    {CompoundOf(<<t>>) : t \in Leaves} \cup {CompoundOf(vs) : vs \in SeqsUpTo(Few, MaxEntries)}

InnerCompounds ==
    {<<>>, CompoundOf(<<Tag("String", Str(<<97>>))>>),
     CompoundOf(<<Tag("Byte", 0), Tag("List", EmptyList)>>)}

InnerLists ==
    {EmptyList, ListOf("Int", 0), ListOf("String", 2), List("Compound", <<>>),
     List("Compound", <<CompoundOf(<<Tag("Long", 1)>>)>>)}

Containers ==
    {Tag("Compound", c) : c \in InnerCompounds}
      \cup {Tag("List", List("Compound", cs)) : cs \in SeqsUpTo(InnerCompounds, MaxListLen)}
      \cup {Tag("List", List("List", ls)) : ls \in SeqsUpTo(InnerLists, MaxListLen)}

\* a compound nested d compounds deep below itself
RECURSIVE CompoundChain(_)
CompoundChain(d) ==
    IF d = 0 THEN <<>>
    ELSE CompoundOf(<<Tag("Int", d), Tag("Compound", CompoundChain(d - 1))>>)

\* a list nested d lists deep below itself
RECURSIVE ListChain(_)
ListChain(d) ==
    IF d = 0 THEN ListOf("Byte", 1)
    ELSE List("List", <<ListChain(d - 1), EmptyList>>)

Roots ==
    FlatCompounds
      \cup {CompoundOf(<<t>>) : t \in Containers}
      \cup {CompoundOf(<<Tag("String", <<>>), t>>) : t \in Containers}
      \cup {CompoundChain(d) : d \in 1..MaxDepth}
      \cup {CompoundOf(<<Tag("List", ListChain(d))>>) : d \in 1..(MaxDepth - 1)}

NoneBuilt == [some |-> FALSE, name |-> <<>>, compound |-> <<>>]

SomeBuilt(name, c) == [some |-> TRUE, name |-> name, compound |-> c]

\* the calls a caller may make between two calls on one component
Others == {NoneBuilt, SomeBuilt(<<>>, <<>>), SomeBuilt(<<>>, CompoundOf(<<Tag("String", Str(<<104, 105>>))>>))}

Inputs ==
    {NoneBuilt}
      \cup {SomeBuilt(<<>>, c) : c \in Roots}
      \cup {SomeBuilt(Str(<<114>>), CompoundOf(vs)) : vs \in SeqsUpTo(Few, 1)}

----------------------------------------------------------------------------
(* encode_text_component, and the caller that calls it again.              *)

NoResult == [ok |-> FALSE, bytes |-> <<>>]

NotSaved == [has |-> FALSE, component |-> NoneBuilt, bytes |-> <<>>, between |-> FALSE]

cfg == [stack |-> stack, buffer |-> buffer, events |-> events]

\* a string of n bytes
LongString(n) == <<<<97, n>>>>

\* components with a string or a key at, and one byte over, the u16 limit
BigInputs ==
    {SomeBuilt(<<>>, <<Entry(TextKey, Tag("String", LongString(U16Max)))>>),
     SomeBuilt(<<>>, <<Entry(TextKey, Tag("String", LongString(U16Max + 1)))>>),
     SomeBuilt(<<>>, <<Entry(LongString(U16Max + 1), Tag("Byte", 1))>>),
     SomeBuilt(<<>>, <<Entry(TextKey,
                             Tag("List", List("String", <<LongString(U16Max + 1)>>)))>>)}

InitWith(components) ==
    /\ component \in components
    /\ pc = "L41"
    /\ stack = <<>>
    /\ buffer = <<>>
    /\ events = <<>>
    /\ result = NoResult
    /\ saved = NotSaved

Init == InitWith(Inputs)

\* lines 41-42: the component built an Nbt::Some; its compound is taken
EncodeBuild ==
    /\ pc = "L41"
    /\ component.some
    /\ pc' = "L46"
    /\ UNCHANGED <<component, stack, buffer, events, result, saved>>

\* Nbt::None is taken for an empty compound
EncodePanicDefaults ==
    /\ pc = "L41"
    /\ ~component.some
    /\ pc' = "L46"
    /\ UNCHANGED <<component, stack, buffer, events, result, saved>>

\* line 43: the component built Nbt::None
EncodePanic ==
    /\ pc = "L41"
    /\ ~component.some
    /\ pc' = "panicked"
    /\ UNCHANGED <<component, stack, buffer, events, result, saved>>

\* the file form: the root's name follows the tag id
EncodeNewBufferFileForm ==
    /\ pc = "L46"
    /\ buffer' = <<10>> \o ToBeBytes(AsU16(Len(as_bytes(component.name))), 2)
                       \o as_bytes(component.name)
    /\ pc' = "L49"
    /\ UNCHANGED <<component, stack, events, result, saved>>

\* the buffer of the call before is written on
EncodeNewBufferReused ==
    /\ pc = "L46"
    /\ buffer' = Append(buffer, 10)
    /\ pc' = "L49"
    /\ UNCHANGED <<component, stack, events, result, saved>>

\* lines 46-48: a new buffer, and TAG_Compound pushed on it
EncodeNewBuffer ==
    /\ pc = "L46"
    /\ buffer' = <<10>>
    /\ pc' = "L49"
    /\ UNCHANGED <<component, stack, events, result, saved>>

\* line 49: write_nbt_compound(&mut buffer, &compound) is called
EncodeCall ==
    /\ pc = "L49"
    /\ LET c == Call(cfg, "write_nbt_compound", component.compound)
       IN /\ stack' = c.stack
          /\ events' = c.events
    /\ pc' = "writing"
    /\ UNCHANGED <<component, buffer, result, saved>>

\* the write under line 49 is in function fn
In(fn) == pc = "writing" /\ stack # <<>> /\ Top(cfg).fn = fn

\* the machine moves to configuration c
Becomes(c) ==
    /\ stack' = c.stack
    /\ buffer' = c.buffer
    /\ events' = c.events
    /\ UNCHANGED <<component, pc, result, saved>>

WriteNbtCompound ==
    /\ In("write_nbt_compound")
    /\ Becomes(write_nbt_compound(cfg))

WriteNbtTagPayload ==
    /\ In("write_nbt_tag_payload")
    /\ Becomes(write_nbt_tag_payload(cfg))

WriteNbtList ==
    /\ In("write_nbt_list")
    /\ Becomes(write_nbt_list(cfg))

WriteNbtListLong ==
    /\ In("write_nbt_list_long")
    /\ Becomes(write_nbt_list_long(cfg))

WriteNbtListFloat ==
    /\ In("write_nbt_list_float")
    /\ Becomes(write_nbt_list_float(cfg))

WriteNbtListDouble ==
    /\ In("write_nbt_list_double")
    /\ Becomes(write_nbt_list_double(cfg))

WriteNbtListByteArray ==
    /\ In("write_nbt_list_byte_array")
    /\ Becomes(write_nbt_list_byte_array(cfg))

WriteNbtListString ==
    /\ In("write_nbt_list_string")
    /\ Becomes(write_nbt_list_string(cfg))

WriteNbtListList ==
    /\ In("write_nbt_list_list")
    /\ Becomes(write_nbt_list_list(cfg))

WriteNbtListCompound ==
    /\ In("write_nbt_list_compound")
    /\ Becomes(write_nbt_list_compound(cfg))

WriteNbtListIntArray ==
    /\ In("write_nbt_list_int_array")
    /\ Becomes(write_nbt_list_int_array(cfg))

WriteNbtListLongArray ==
    /\ In("write_nbt_list_long_array")
    /\ Becomes(write_nbt_list_long_array(cfg))

\* lines 49-55: the write returned Ok, the buffer is returned.  The caller
\* may keep this call's component and bytes to compare a later call with.
EncodeReturn ==
    /\ pc = "writing"
    /\ stack = <<>>
    /\ result' = [ok |-> TRUE, bytes |-> buffer]
    /\ pc' = "returned"
    /\ saved' \in {saved} \cup
                  (IF saved.has THEN {}
                   ELSE {[has |-> TRUE, component |-> component, bytes |-> buffer,
                          between |-> FALSE]})
    /\ UNCHANGED <<component, stack, buffer, events>>

\* the caller calls encode_text_component again; saved.between records a call
\* on another component since the kept one
Invoke ==
    /\ pc \in {"returned", "panicked"}
    /\ component' \in {component} \cup {saved.component} \cup Others
    /\ pc' = "L41"
    /\ events' = <<>>
    /\ result' = NoResult
    /\ saved' = [saved EXCEPT !.between = @ \/ (saved.has /\ component' # saved.component)]
    /\ UNCHANGED <<stack, buffer>>

Next ==
    \/ EncodeBuild
    \/ EncodePanic
    \/ EncodeNewBuffer
    \/ EncodeCall
    \/ WriteNbtCompound
    \/ WriteNbtTagPayload
    \/ WriteNbtList
    \/ WriteNbtListLong
    \/ WriteNbtListFloat
    \/ WriteNbtListDouble
    \/ WriteNbtListByteArray
    \/ WriteNbtListString
    \/ WriteNbtListList
    \/ WriteNbtListCompound
    \/ WriteNbtListIntArray
    \/ WriteNbtListLongArray
    \/ EncodeReturn
    \/ Invoke

Spec == Init /\ [][Next]_vars

\* the same program, given also the components of BigInputs
InitBig == InitWith(Inputs \cup BigInputs)

SpecBig == InitBig /\ [][Next]_vars

----------------------------------------------------------------------------
(* Measures of a value, from the wire format's table of payload shapes.    *)

RECURSIVE SumSeq(_)
SumSeq(ns) == IF ns = <<>> THEN 0 ELSE ns[1] + SumSeq(Tail(ns))

RECURSIVE MaxSeq(_)
MaxSeq(ns) ==
    IF ns = <<>> THEN 0
    ELSE LET m == MaxSeq(Tail(ns)) IN IF ns[1] > m THEN ns[1] ELSE m

IsPrefix(s, t) == Len(s) <= Len(t) /\ SubSeq(t, 1, Len(s)) = s

\* the members of a list, each as a tag of the list's kind
ElementTags(list) == [i \in 1..Len(Val(list)) |-> Tag(Kind(list), Val(list)[i])]

\* the number of bytes of a tag's payload
RECURSIVE WireLen(_)
WireLen(tag) ==
    LET k == Kind(tag)
        v == Val(tag)
    IN CASE k = "Byte" -> 1
         [] k = "Short" -> 2
         [] k \in {"Int", "Float"} -> 4
         [] k \in {"Long", "Double"} -> 8
         [] k = "ByteArray" -> 4 + Len(v)
         [] k = "String" -> 2 + Len(as_bytes(v))
         [] k = "IntArray" -> 4 + 4 * Len(v)
         [] k = "LongArray" -> 4 + 8 * Len(v)
         [] k = "List" ->
              5 + SumSeq([i \in 1..Len(Val(v)) |-> WireLen(ElementTags(v)[i])])
         [] k = "Compound" ->
              SumSeq([i \in 1..Len(v) |->
                        1 + 2 + Len(as_bytes(Key(v[i]))) + WireLen(Value(v[i]))]) + 1

\* how deep compounds and lists nest in a tag, the tag itself included
RECURSIVE NestingDepth(_)
NestingDepth(tag) ==
    LET k == Kind(tag)
        v == Val(tag)
    IN CASE k = "List" ->
              1 + MaxSeq([i \in 1..Len(Val(v)) |-> NestingDepth(ElementTags(v)[i])])
         [] k = "Compound" ->
              1 + MaxSeq([i \in 1..Len(v) |-> NestingDepth(Value(v[i]))])
         [] OTHER -> 0

\* the compounds of a tag, the tag itself included
RECURSIVE NumCompounds(_)
NumCompounds(tag) ==
    LET k == Kind(tag)
        v == Val(tag)
    IN CASE k = "List" ->
              SumSeq([i \in 1..Len(Val(v)) |-> NumCompounds(ElementTags(v)[i])])
         [] k = "Compound" ->
              1 + SumSeq([i \in 1..Len(v) |-> NumCompounds(Value(v[i]))])
         [] OTHER -> 0

\* what the frame on top has appended since it was called
Written == SubSeq(buffer, Top(cfg).at + 1, Len(buffer))

\* the frame on top is in fn, at line p
TopAt(fn, p) == In(fn) /\ Top(cfg).pc = p

----------------------------------------------------------------------------
(* C1: the returned bytes are the byte 0x0A followed at once by the body   *)
(* write_nbt_compound writes for the root compound, with no name length or *)
(* name in between: the first byte is 0x0A, the last is 0x00, the length   *)
(* is at least 2.                                                          *)

C1_NetworkForm ==
    pc = "returned" =>
        LET out == result.bytes
            body == component.compound
        IN /\ result.ok
           /\ out = <<10>> \o BytesOf("write_nbt_compound", body)
           /\ Len(out) = 1 + WireLen(Tag("Compound", body))
           /\ Len(out) >= 2
           /\ out[1] = 10
           /\ out[Len(out)] = 0
           /\ out[2] = IF body = <<>> THEN 0 ELSE get_nbt_tag_id(Value(body[1]))

C1_Witness ==
    /\ pc = "returned"
    /\ component.name # <<>>
    /\ component.compound # <<>>
    /\ Len(result.bytes) > 2

----------------------------------------------------------------------------
(* C2: write_nbt_compound writes, for each entry in iteration order, the   *)
(* tag id of the entry's value, the key as a u16 big-endian length and the *)
(* key bytes, then the value's payload; after the last entry one 0x00, and *)
(* never a tag id for the compound itself.  Its length is the sum of its   *)
(* entries' lengths plus 1.                                                *)

\* the bytes of one entry
EntryBytes(e) ==
    <<get_nbt_tag_id(Value(e))>> \o ToBeBytes(Len(as_bytes(Key(e))), 2) \o as_bytes(Key(e))
        \o BytesOf("write_nbt_tag_payload", Value(e))

C2_CompoundLayout ==
    TopAt("write_nbt_compound", "L72") =>
        LET compound == Top(cfg).it
            n == Len(compound)
        IN /\ Written = Flat([i \in 1..n |-> EntryBytes(compound[i])]) \o <<0>>
           /\ Len(Written)
                = SumSeq([i \in 1..n |->
                            1 + 2 + Len(as_bytes(Key(compound[i])))
                              + WireLen(Value(compound[i]))]) + 1

C2_Witness ==
    /\ TopAt("write_nbt_compound", "L72")
    /\ Len(stack) > 1
    /\ Len(Top(cfg).it) = 2

----------------------------------------------------------------------------
(* C3: write_nbt_list writes the canonical empty list, element kind 0x00   *)
(* and count 0, five bytes, for every list of zero elements, whatever      *)
(* element kind the list declares.                                         *)

C3_EmptyListCanonical ==
    (TopAt("write_nbt_list", "L164") /\ Val(Top(cfg).it) = <<>>) =>
        Written = <<0, 0, 0, 0, 0>>

----------------------------------------------------------------------------
(* C4: for a list of one or more elements, of any of the twelve kinds,     *)
(* write_nbt_list writes the element kind once (the id get_nbt_tag_id      *)
(* gives that kind), the i32 big-endian count, then each element as        *)
(* write_nbt_tag_payload writes a tag of that kind holding it: no tag id   *)
(* and no key per element.                                                 *)

C4_ListElementsArePayloads ==
    (TopAt("write_nbt_list", "L164") /\ Val(Top(cfg).it) # <<>>) =>
        LET list == Top(cfg).it
            tags == ElementTags(list)
        IN Written
             = <<get_nbt_tag_id(tags[1])>> \o ToBeBytes(Len(tags), 4)
                 \o Flat([i \in 1..Len(tags) |->
                            BytesOf("write_nbt_tag_payload", tags[i])])

C4_Witness ==
    /\ TopAt("write_nbt_list", "L164")
    /\ Kind(Top(cfg).it) = "List"
    /\ Len(Val(Top(cfg).it)) = 2
    /\ Val(Top(cfg).it)[1] # Val(Top(cfg).it)[2]

----------------------------------------------------------------------------
(* C5: at every point of the traversal, at each depth, no more terminators *)
(* have been written than compounds entered; once the encode has returned, *)
(* as many, one for each compound of the tree.                             *)

Count(what, d) == Cardinality({i \in 1..Len(events) : events[i] = <<what, d>>})

Depths == {events[i][2] : i \in 1..Len(events)}

C5_TerminatorsMatchOpens ==
    /\ \A d \in Depths : Count("end", d) <= Count("open", d)
    /\ pc = "returned" =>
         /\ \A d \in Depths : Count("end", d) = Count("open", d)
         /\ Cardinality({i \in 1..Len(events) : events[i][1] = "end"})
              = NumCompounds(Tag("Compound", component.compound))

C5_Witness ==
    /\ pc = "returned"
    /\ \E d \in Depths : d > 1 /\ Count("end", d) = 2

----------------------------------------------------------------------------
(* C6: no string length field disagrees with the bytes that follow it: a   *)
(* string payload, a list-of-string element and a compound key are each    *)
(* written as a u16 big-endian length equal to their byte count; one       *)
(* longer than 65535 bytes makes the encode fail, and no truncated length  *)
(* is written.                                                             *)

\* the u16 the last two bytes of the buffer spell
LastU16 == buffer[Len(buffer) - 1] * 256 + buffer[Len(buffer)]

C6_LengthFieldAgrees ==
    /\ TopAt("write_nbt_tag_payload", "L107") =>
         LastU16 = Len(as_bytes(Val(Top(cfg).it)))
    /\ TopAt("write_nbt_compound", "L66") =>
         LastU16 = Len(as_bytes(Key(Top(cfg).it[Top(cfg).i])))
    /\ TopAt("write_nbt_list_string", "L210") =>
         LastU16 = Len(as_bytes(Top(cfg).it[Top(cfg).i]))

----------------------------------------------------------------------------
(* C7: two calls on the same component return the same bytes, whatever     *)
(* calls were made in between.                                             *)

C7_Deterministic ==
    (pc = "returned" /\ saved.has /\ saved.component = component) =>
        result.bytes = saved.bytes

C7_Witness ==
    /\ pc = "returned"
    /\ saved.has
    /\ saved.between
    /\ saved.component = component
    /\ Len(result.bytes) > 2

----------------------------------------------------------------------------
(* C8: a component that builds no compound makes encode_text_component     *)
(* panic; it returns no bytes, not even the leading 0x0A.                  *)

C8_NoBytesOnPanic ==
    /\ ~component.some => (pc \in {"L41", "panicked"} /\ result = NoResult)
    /\ pc = "panicked" => ~component.some

C8_Witness ==
    /\ pc = "panicked"
    /\ saved.has

----------------------------------------------------------------------------
(* C9: a tree that nests deeper than the configured maximum depth is not   *)
(* encoded: the encode fails with a depth-exceeded fault and returns no    *)
(* bytes.                                                                  *)

C9_DepthGuard ==
    NestingDepth(Tag("Compound", component.compound)) > MaxDepth => pc # "returned"

----------------------------------------------------------------------------
(* C10: during an encode every step leaves the bytes already in the buffer *)
(* as they are and adds at its end only, and what a compound or a list has *)
(* written after k of its entries or elements is those k, in order.        *)

OrderedSoFar ==
    LET f == Top(cfg) IN
    /\ TopAt("write_nbt_compound", "L60") =>
         Written = Flat([k \in 1..f.i |-> EntryBytes(f.it[k])])
    /\ TopAt("write_nbt_list_list", "L218") =>
         SubSeq(Written, 6, Len(Written))
           = Flat([k \in 1..f.i |-> BytesOf("write_nbt_list", f.it[k])])
    /\ TopAt("write_nbt_list_compound", "L227") =>
         SubSeq(Written, 6, Len(Written))
           = Flat([k \in 1..f.i |-> BytesOf("write_nbt_compound", f.it[k])])

AppendOnlyStep == pc = "writing" => IsPrefix(buffer, buffer')

C10_AppendOnly == []OrderedSoFar /\ [][AppendOnlyStep]_vars

C10_Witness ==
    /\ TopAt("write_nbt_compound", "L60")
    /\ Len(stack) > 1
    /\ Top(cfg).i = 2

====
